---- MODULE Spec2Model ----
(***************************************************************************)
(* Offline/model.py of the Dual-mVEPs speller: the train/test Model        *)
(* wrapper (construction, ch_ind, fit, decision_function, extract_feature, *)
(* dump), the ChannelScaler and the static raw2epoch pipeline.             *)
(***************************************************************************)
EXTENDS Integers, Sequences, FiniteSets, TLC

VARIABLES m, disk, scaler, heap, cfg, last, log

vars == <<m, disk, scaler, heap, cfg, last, log>>

(***************************************************************************)
(* Bounds of the model.                                                    *)
(***************************************************************************)
\* channel indices are 0 .. MaxCh-1; an index array holds each at most once
MaxCh == 2
\* training sets are identified by 1 .. MaxTrain
MaxTrain == 1
\* epochs handed to decision_function are identified by 0 .. MaxEpoch
MaxEpoch == 1
\* recordings handed to extract_feature are identified by 1 .. MaxData
MaxData == 1
\* the samples of an epoch tensor handed to the ChannelScaler are 0 .. MaxVal
MaxVal == 2
\* the native sample rate is 1 .. MaxRate, the target rate 1 .. MaxRate + 1
MaxRate == 5

(***************************************************************************)
(* Strings as sequences of characters, so that str.lower() is computed.    *)
(***************************************************************************)
LowerChar(c) ==
  CASE c = "A" -> "a" [] c = "C" -> "c" [] c = "D" -> "d" [] c = "E" -> "e"
    [] c = "G" -> "g" [] c = "H" -> "h" [] c = "I" -> "i" [] c = "L" -> "l"
    [] c = "M" -> "m" [] c = "N" -> "n" [] c = "R" -> "r" [] c = "S" -> "s"
    [] c = "T" -> "t" [] c = "V" -> "v"
    [] OTHER -> c

\* a comparison that forgets to fold the case
LowerForgotten(s) == s

\* str.lower()
Lower(s) == [i \in 1..Len(s) |-> LowerChar(s[i])]

TrainStr == <<"t", "r", "a", "i", "n">>
TestStr == <<"t", "e", "s", "t">>

\* the mode strings a caller passes to Model(...)
Modes ==
  { TrainStr, <<"T", "R", "A", "I", "N">>, <<"T", "r", "a", "i", "n">>,
    TestStr, <<"T", "E", "S", "T">>, <<"e", "v", "a", "l">>, <<>> }

(***************************************************************************)
(* Arrays of channel indices.                                              *)
(***************************************************************************)
Channels == 0..(MaxCh - 1)

IndexArrays ==
  UNION { { s \in [1..n -> Channels] : \A i, j \in 1..n : i /= j => s[i] /= s[j] }
          : n \in 0..MaxCh }

RECURSIVE Insert(_, _)
Insert(x, s) ==
  IF s = <<>> THEN <<x>>
  ELSE IF x <= Head(s) THEN <<x>> \o s
  ELSE <<Head(s)>> \o Insert(x, Tail(s))

RECURSIVE SortAsc(_)
\* ndarray.sort(): ascending, in place
SortAsc(s) == IF s = <<>> THEN <<>> ELSE Insert(Head(s), SortAsc(Tail(s)))

IsSortedAsc(s) == \A i \in 1..(Len(s) - 1) : s[i] <= s[i + 1]

(***************************************************************************)
(* The coefficient store: a dict in train mode, the read-only NpzFile that *)
(* np.load returns in test mode.                                           *)
(***************************************************************************)
Key == "ind_ch_scores"

NoItems == [k \in {} |-> <<>>]

EmptyDict == [kind |-> "dict", items |-> NoItems]

\* bool(self.data_dict)
Truthy(d) == DOMAIN d.items /= {}

\* np.savez(path, **data_dict): one archive member per key
SavezMembers(d) == { <<k, d.items[k]>> : k \in DOMAIN d.items }

\* np.load(path): the members of the archive, by key
NpLoad(members) ==
  [kind |-> "npz",
   items |-> [k \in { e[1] : e \in members } |->
                (CHOOSE e \in members : e[1] = k)[2]]]

(***************************************************************************)
(* The pipeline (Xdawn, ChannelScaler, Vectorizer, LogisticRegression).    *)
(* pre: the training set the transformers were fit on (0: unfit); clf: the *)
(* training set the classifier was fit on (0: unfit).                      *)
(***************************************************************************)
DefaultC == 1
DefaultNComponents == 3

\* the keyword arguments of Model(...): the defaults of C and n_components
Kwargs == { [C |-> DefaultC, n_components |-> DefaultNComponents] }

MakePipeline(kw) ==
  [is_none |-> FALSE, C |-> kw.C, n_components |-> kw.n_components,
   pre |-> 0, clf |-> 0]

\* joblib.dump: the pickled pipeline, field by field
JoblibDump(cls) ==
  <<IF cls.is_none THEN 0 ELSE 1, cls.C, cls.n_components, cls.pre, cls.clf>>

\* a load that rebuilds the pipeline from its hyperparameters alone
JoblibLoadUnfit(blob) ==
  [is_none |-> blob[1] = 0, C |-> blob[2], n_components |-> blob[3],
   pre |-> 0, clf |-> 0]

\* joblib.load
JoblibLoad(blob) ==
  [is_none |-> blob[1] = 0, C |-> blob[2], n_components |-> blob[3],
   pre |-> blob[4], clf |-> blob[5]]

IsFitted(cls) == ~cls.is_none /\ cls.clf /= 0

\* the classifier's score of epoch X: the weights learnt from training set
\* clf (under regularisation C) applied to X as transformed by the
\* transformers fit on training set pre
Decide(cls, X) == cls.C * cls.clf * (X - cls.pre) + cls.n_components

TrainSets == 1..MaxTrain
Labels == {"two_class", "one_class"}
Epochs == 0..MaxEpoch

(***************************************************************************)
(* Model.__init__                                                          *)
(***************************************************************************)
Failed(err, lg, model) == [ok |-> FALSE, err |-> err, log |-> lg, model |-> model]

Done(lg, model) == [ok |-> TRUE, err |-> "", log |-> lg, model |-> model]

ModelInit(mode, kw, dsk, old) ==
  LET lm == Lower(mode) IN
  IF lm \notin {TrainStr, TestStr} THEN Failed("AssertionError", <<>>, old)
  ELSE IF lm = TestStr THEN
    IF ~dsk.coef.exists THEN Failed("FileNotFoundError", <<"np.load">>, old)
    ELSE IF ~dsk.pkl.exists
      THEN Failed("FileNotFoundError", <<"np.load", "joblib.load">>, old)
    ELSE
      LET dd == NpLoad(dsk.coef.members) IN
      IF Key \notin DOMAIN dd.items
      THEN Failed("KeyError", <<"np.load", "joblib.load">>, old)
      ELSE Done(<<"np.load", "joblib.load">>,
                [mode |-> lm, data_dict |-> dd, cls |-> JoblibLoad(dsk.pkl.blob),
                 has_ch_ind |-> TRUE, ch_ind |-> dd.items[Key]])
  ELSE Done(<<"make_pipeline">>,
            [mode |-> lm, data_dict |-> EmptyDict, cls |-> MakePipeline(kw),
             has_ch_ind |-> FALSE, ch_ind |-> <<>>])

(***************************************************************************)
(* Model.ch_ind setter                                                     *)
(***************************************************************************)
SetChIndRes(w, value) ==
  LET sorted == SortAsc(value)
      w1 == [w EXCEPT !.has_ch_ind = TRUE, !.ch_ind = sorted]
  IN  IF w.data_dict.kind = "npz"
      THEN \* NpzFile does not support item assignment
           Failed("TypeError", <<>>, w1)
      ELSE Done(<<>>, [w1 EXCEPT !.data_dict.items = (Key :> sorted)])

(***************************************************************************)
(* Model.fit: Pipeline.fit fits the transformers in place, then the        *)
(* classifier; liblinear refuses labels of a single class.                 *)
(***************************************************************************)
FitRes(w, X, y) ==
  LET w1 == [w EXCEPT !.cls.pre = X] IN
  IF y = "one_class" THEN Failed("ValueError", <<>>, w1)
  ELSE Done(<<>>, [w1 EXCEPT !.cls.clf = X])

(***************************************************************************)
(* Model.decision_function                                                 *)
(***************************************************************************)
DecisionRes(w, X) ==
  IF ~IsFitted(w.cls) THEN [ok |-> FALSE, err |-> "NotFittedError", ret |-> 0]
  ELSE [ok |-> TRUE, err |-> "", ret |-> Decide(w.cls, X)]

(***************************************************************************)
(* Model.extract_feature                                                   *)
(***************************************************************************)
Extractors == {"negate", "double"}

ExtractValue(e, x) == IF e = "negate" THEN 0 - x ELSE 2 * x

\* the extractor works along the time axis, channel by channel
Extract(e, data) == [i \in DOMAIN data |-> ExtractValue(e, data[i])]

\* recording k: one row per channel, row c holding 10 * k + c
Recording(k) == [c \in 1..MaxCh |-> 10 * k + (c - 1)]

Recordings == { Recording(k) : k \in 1..MaxData }

\* data[ch_ind]: rows picked by 0-based index, in the order of ch_ind
TakeRows(data, ind) == [i \in 1..Len(ind) |-> data[ind[i] + 1]]

\* an extract_feature that reads self.ch_ind before looking at the flag
ExtractFeatureEager(w, e, data, channel_selection) ==
  IF ~w.has_ch_ind
  THEN [ok |-> FALSE, err |-> "AttributeError", ret |-> <<>>]
  ELSE [ok |-> TRUE, err |-> "",
        ret |-> Extract(e, IF channel_selection THEN TakeRows(data, w.ch_ind)
                           ELSE data)]

ExtractFeatureRes(w, e, data, channel_selection) ==
  IF channel_selection
  THEN IF ~w.has_ch_ind
       THEN [ok |-> FALSE, err |-> "AttributeError", ret |-> <<>>]
       ELSE [ok |-> TRUE, err |-> "", ret |-> Extract(e, TakeRows(data, w.ch_ind))]
  ELSE [ok |-> TRUE, err |-> "", ret |-> Extract(e, data)]

(***************************************************************************)
(* Model.dump                                                              *)
(***************************************************************************)
IOs == {"ok", "savez_fails", "joblib_fails"}

\* a dump that returns early when there are no coefficients to save
DumpResCoupled(w, dsk, io) ==
  IF ~Truthy(w.data_dict)
  THEN [ok |-> TRUE, err |-> "", log |-> <<>>, disk |-> dsk]
  ELSE LET d1 == [dsk EXCEPT !.coef = [exists |-> TRUE,
                                       members |-> SavezMembers(w.data_dict)]]
           d2 == [d1 EXCEPT !.pkl = [exists |-> TRUE, blob |-> JoblibDump(w.cls)]]
       IN  IF io = "savez_fails"
           THEN [ok |-> FALSE, err |-> "OSError", log |-> <<"np.savez">>, disk |-> dsk]
           ELSE IF io = "joblib_fails"
           THEN [ok |-> FALSE, err |-> "OSError",
                 log |-> <<"np.savez", "joblib.dump">>, disk |-> d1]
           ELSE [ok |-> TRUE, err |-> "",
                 log |-> <<"np.savez", "joblib.dump">>, disk |-> d2]

DumpRes(w, dsk, io) ==
  LET saveCoef == Truthy(w.data_dict)
      savePkl == ~w.cls.is_none
      d1 == IF saveCoef
            THEN [dsk EXCEPT !.coef = [exists |-> TRUE,
                                       members |-> SavezMembers(w.data_dict)]]
            ELSE dsk
      d2 == IF savePkl
            THEN [d1 EXCEPT !.pkl = [exists |-> TRUE, blob |-> JoblibDump(w.cls)]]
            ELSE d1
      l1 == IF saveCoef THEN <<"np.savez">> ELSE <<>>
      l2 == IF savePkl THEN l1 \o <<"joblib.dump">> ELSE l1
  IN  IF saveCoef /\ io = "savez_fails"
      THEN [ok |-> FALSE, err |-> "OSError", log |-> l1, disk |-> dsk]
      ELSE IF savePkl /\ io = "joblib_fails"
      THEN [ok |-> FALSE, err |-> "OSError", log |-> l2, disk |-> d1]
      ELSE [ok |-> TRUE, err |-> "", log |-> l2, disk |-> d2]

(***************************************************************************)
(* The wrapper's operations as actions.  m is the caller's wrapper; a      *)
(* construction that raises leaves the caller with the wrapper it had.     *)
(***************************************************************************)
EmptyDisk ==
  [coef |-> [exists |-> FALSE, members |-> {}],
   pkl |-> [exists |-> FALSE, blob |-> <<>>]]

Idle == [op |-> "none", ok |-> TRUE, err |-> ""]

OtherParts == <<scaler, heap, cfg>>

Construct(mode, kw) ==
  LET r == ModelInit(mode, kw, disk, m) IN
  /\ m' = r.model
  /\ last' = [op |-> "init", ok |-> r.ok, err |-> r.err, mode |-> mode]
  /\ log' = r.log
  /\ UNCHANGED <<disk, OtherParts>>

SetChInd(value) ==
  LET r == SetChIndRes(m, value) IN
  /\ m' = r.model
  /\ last' = [op |-> "set_ch_ind", ok |-> r.ok, err |-> r.err]
  /\ log' = r.log
  /\ UNCHANGED <<disk, OtherParts>>

Fit(X, y) ==
  LET r == FitRes(m, X, y) IN
  /\ m' = r.model
  /\ last' = [op |-> "fit", ok |-> r.ok, err |-> r.err]
  /\ log' = r.log
  /\ UNCHANGED <<disk, OtherParts>>

DecisionFunction(X) ==
  LET r == DecisionRes(m, X) IN
  /\ last' = [op |-> "decision_function", ok |-> r.ok, err |-> r.err,
              X |-> X, ret |-> r.ret]
  /\ log' = <<>>
  /\ UNCHANGED <<m, disk, OtherParts>>

ExtractFeature(e, data, channel_selection) ==
  LET r == ExtractFeatureRes(m, e, data, channel_selection) IN
  /\ last' = [op |-> "extract_feature", ok |-> r.ok, err |-> r.err,
              extractor |-> e, data |-> data,
              channel_selection |-> channel_selection, ret |-> r.ret]
  /\ log' = <<>>
  /\ UNCHANGED <<m, disk, OtherParts>>

Dump(io) ==
  LET r == DumpRes(m, disk, io) IN
  /\ disk' = r.disk
  /\ last' = [op |-> "dump", ok |-> r.ok, err |-> r.err]
  /\ log' = r.log
  /\ UNCHANGED <<m, OtherParts>>

\* the parts of the state the wrapper's operations do not touch
NoScaler == [norm_method |-> <<>>, fitted |-> FALSE, mean |-> <<>>, std |-> <<>>]
NoHeap == [X |-> <<>>, out |-> <<>>, has_out |-> FALSE]
NoCfg == [type |-> <<>>]

\* a fresh session: Model(mode = 'train') on an empty session directory
Init ==
  /\ \E mode \in {s \in Modes : Lower(s) = TrainStr}, kw \in Kwargs :
       /\ m = ModelInit(mode, kw, EmptyDisk, 0).model
       /\ last = [op |-> "init", ok |-> TRUE, err |-> "", mode |-> mode]
  /\ log = <<"make_pipeline">>
  /\ disk = EmptyDisk
  /\ scaler = NoScaler
  /\ heap = NoHeap
  /\ cfg = NoCfg

Next ==
  \/ \E mode \in Modes, kw \in Kwargs : Construct(mode, kw)
  \/ \E value \in IndexArrays : SetChInd(value)
  \/ \E X \in TrainSets, y \in Labels : Fit(X, y)
  \/ \E X \in Epochs : DecisionFunction(X)
  \/ \E io \in IOs : Dump(io)

Spec == Init /\ [][Next]_vars

\* the channel-selection side of the wrapper: no training
NextFeature ==
  \/ \E mode \in Modes, kw \in Kwargs : Construct(mode, kw)
  \/ \E value \in IndexArrays : SetChInd(value)
  \/ \E e \in Extractors, data \in Recordings, sel \in BOOLEAN :
       ExtractFeature(e, data, sel)
  \/ \E io \in IOs : Dump(io)

SpecFeature == Init /\ [][NextFeature]_vars

(***************************************************************************)
(* ChannelScaler.  An epoch tensor X[e][c][t] has shape (n_epochs,         *)
(* n_channels, n_times).  The statistics are kept exactly: a mean is the   *)
(* pair <<sum, count>>, a standard deviation sqrt(varnum) / count is the   *)
(* pair <<varnum, count>> with varnum = count * sum of squares - sum^2,    *)
(* and a transformed sample (count * x - sum) / sqrt(varnum) is the pair   *)
(* <<count * x - sum, varnum>> (a zero varnum is numpy's inf or nan).      *)
(***************************************************************************)
\* (n_epochs, n_channels, n_times)
Shape == <<2, 2, 2>>

EpochIx == 1..Shape[1]
ChanIx == 1..Shape[2]
TimeIx == 1..Shape[3]

Tensors ==
  { [e \in EpochIx |-> [c \in ChanIx |-> [t \in TimeIx |->
       (a * e + b * c + d * t) % (MaxVal + 1)]]] : a, b, d \in 0..MaxVal }

NormMethods ==
  { <<"c", "h", "a", "n", "n", "e", "l">>, <<"C", "h", "a", "n", "n", "e", "l">>,
    <<"d", "i", "m">>, <<"D", "I", "M">>, <<"t", "i", "m", "e">> }

ChannelStr == <<"c", "h", "a", "n", "n", "e", "l">>
DimStr == <<"d", "i", "m">>

RECURSIVE SumOver(_, _)
\* the sum of f over the finite set S
SumOver(f, S) ==
  IF S = {} THEN 0
  ELSE LET x == CHOOSE y \in S : TRUE IN f[x] + SumOver(f, S \ {x})

\* the cells one statistic is taken over: norm_axis (0, 2) for 'channel',
\* norm_axis 0 for 'dim'; keepdims keeps the reduced axes at length 1
StatTimes(method) == IF method = ChannelStr THEN {1} ELSE TimeIx

Cells(method, t) ==
  IF method = ChannelStr THEN EpochIx \X TimeIx ELSE EpochIx \X {t}

SumAt(X, method, c, t) ==
  SumOver([p \in Cells(method, t) |-> X[p[1]][c][p[2]]], Cells(method, t))

SumSqAt(X, method, c, t) ==
  SumOver([p \in Cells(method, t) |-> X[p[1]][c][p[2]] * X[p[1]][c][p[2]]],
          Cells(method, t))

\* np.mean(X, axis = norm_axis, keepdims = True)
NpMean(X, method) ==
  [c \in ChanIx |-> [t \in StatTimes(method) |->
     <<SumAt(X, method, c, t), Cardinality(Cells(method, t))>>]]

\* np.std(X, axis = norm_axis, keepdims = True)
NpStd(X, method) ==
  [c \in ChanIx |-> [t \in StatTimes(method) |->
     LET n == Cardinality(Cells(method, t))
         sm == SumAt(X, method, c, t)
     IN  <<n * SumSqAt(X, method, c, t) - sm * sm, n>>]]

\* broadcasting of a statistic of length 1 along the time axis
Bcast(stat, c, t) == IF t \in DOMAIN stat[c] THEN stat[c][t] ELSE stat[c][1]

\* (X - mean) / std, element-wise
Standardize(X, mean, std) ==
  [e \in EpochIx |-> [c \in ChanIx |-> [t \in TimeIx |->
     <<Bcast(mean, c, t)[2] * X[e][c][t] - Bcast(mean, c, t)[1],
       Bcast(std, c, t)[1]>>]]]

NoStat == << >>

\* ChannelScaler.__init__
ScalerInit(norm_method, old) ==
  LET nm == Lower(norm_method) IN
  IF nm \notin {ChannelStr, DimStr}
  THEN [ok |-> FALSE, err |-> "KeyError", scaler |-> old]
  ELSE [ok |-> TRUE, err |-> "",
        scaler |-> [norm_method |-> nm, fitted |-> FALSE,
                    mean |-> NoStat, std |-> NoStat]]

\* ChannelScaler.fit
ScalerFitRes(sc, X) ==
  [sc EXCEPT !.fitted = TRUE,
             !.mean = NpMean(X, sc.norm_method),
             !.std = NpStd(X, sc.norm_method)]

\* a transform that takes the statistics from its own argument
ScalerTransformRefit(sc, hp) ==
  LET sc1 == ScalerFitRes(sc, hp.X) IN
  [ok |-> TRUE, err |-> "", ret |-> "out", scaler |-> sc1,
   heap |-> [hp EXCEPT !.has_out = TRUE,
                       !.out = Standardize(hp.X, sc1.mean, sc1.std)]]

\* ChannelScaler.transform: X is the caller's array, out the copy returned
ScalerTransformRes(sc, hp) ==
  IF ~sc.fitted
  THEN \* X -= None
       [ok |-> FALSE, err |-> "TypeError", ret |-> "none", scaler |-> sc,
        heap |-> hp]
  ELSE [ok |-> TRUE, err |-> "", ret |-> "out", scaler |-> sc,
        heap |-> [hp EXCEPT !.has_out = TRUE,
                            !.out = Standardize(hp.X, sc.mean, sc.std)]]

WrapperParts == <<m, disk, cfg>>

NewScaler(norm_method) ==
  LET r == ScalerInit(norm_method, scaler) IN
  /\ scaler' = r.scaler
  /\ last' = [op |-> "scaler_init", ok |-> r.ok, err |-> r.err]
  /\ log' = <<>>
  /\ UNCHANGED <<heap, WrapperParts>>

\* the caller takes a fresh epoch tensor
NewTensor(X) ==
  /\ heap' = [X |-> X, out |-> << >>, has_out |-> FALSE]
  /\ last' = [op |-> "new_tensor", ok |-> TRUE, err |-> ""]
  /\ log' = <<>>
  /\ UNCHANGED <<scaler, WrapperParts>>

ScalerFit ==
  /\ scaler' = ScalerFitRes(scaler, heap.X)
  /\ last' = [op |-> "scaler_fit", ok |-> TRUE, err |-> ""]
  /\ log' = <<>>
  /\ UNCHANGED <<heap, WrapperParts>>

ScalerTransform ==
  LET r == ScalerTransformRes(scaler, heap) IN
  /\ heap' = r.heap
  /\ scaler' = r.scaler
  /\ last' = [op |-> "scaler_transform", ok |-> r.ok, err |-> r.err, ret |-> r.ret]
  /\ log' = <<>>
  /\ UNCHANGED WrapperParts

ScalerFitTransform ==
  LET sc == ScalerFitRes(scaler, heap.X)
      r == ScalerTransformRes(sc, heap)
  IN  /\ scaler' = r.scaler
      /\ heap' = r.heap
      /\ last' = [op |-> "scaler_fit_transform", ok |-> r.ok, err |-> r.err,
                  ret |-> r.ret]
      /\ log' = <<>>
      /\ UNCHANGED WrapperParts

NoModel == [mode |-> <<>>]

InitScaler ==
  /\ \E nm \in NormMethods :
       /\ ScalerInit(nm, NoScaler).ok
       /\ scaler = ScalerInit(nm, NoScaler).scaler
  /\ \E X \in Tensors : heap = [X |-> X, out |-> << >>, has_out |-> FALSE]
  /\ last = [op |-> "scaler_init", ok |-> TRUE, err |-> ""]
  /\ log = <<>>
  /\ m = NoModel
  /\ disk = EmptyDisk
  /\ cfg = NoCfg

NextScaler ==
  \/ \E nm \in NormMethods : NewScaler(nm)
  \/ \E X \in Tensors : NewTensor(X)
  \/ ScalerFit
  \/ ScalerTransform
  \/ ScalerFitTransform

SpecScaler == InitScaler /\ [][NextScaler]_vars

\* C7: transform changes neither its argument nor the stored statistics, and
\* returns an array of its own holding (X - mean) / std.
C7_TransformIsPure ==
  [][(last'.op = "scaler_transform")
     => (/\ scaler' = scaler
         /\ last'.ok <=> scaler.fitted
         /\ last'.ok => last'.ret = "out"
         /\ heap'.X = heap.X
         /\ last'.ok =>
              /\ heap'.has_out
              /\ \A e \in EpochIx, c \in ChanIx, t \in TimeIx :
                   LET mu == Bcast(scaler.mean, c, t)
                       sd == Bcast(scaler.std, c, t)
                   IN  heap'.out[e][c][t] = <<mu[2] * heap.X[e][c][t] - mu[1], sd[1]>>)]_vars

\* a transform of a tensor other than the one the statistics were fit on
C7_Witness ==
  /\ last.op = "scaler_transform" /\ last.ok
  /\ scaler.fitted
  /\ scaler.mean /= NpMean(heap.X, scaler.norm_method)
  /\ \E e \in EpochIx, c \in ChanIx, t \in TimeIx :
       heap.out[e][c][t][1] /= heap.X[e][c][t]

(***************************************************************************)
(* Model.raw2epoch.  cfg is the configuration collaborator.  An epoch      *)
(* tensor is kept symbolically: the raw recording it was cut from, the     *)
(* arrival index of the epoch in each slot of the epoch axis, the number   *)
(* of channels, the offset (within the cut window) of the sample in each   *)
(* slot of the time axis, and the value-changing steps applied so far,     *)
(* each with the length of the time axis it was applied over.              *)
(***************************************************************************)
EegStr == <<"e", "e", "g">>

RecordingTypes == { EegStr, <<"E", "E", "G">>, <<"e", "c", "o", "g">> }

Starts == {-1, 0}
Ends == {1, 2}

Configs ==
  { c \in [type : RecordingTypes, start : Starts, end : Ends,
           time_window : (-1..2) \X (-1..2),
           samplerate : 1..MaxRate, downsamp : 1..(MaxRate + 1)] :
      /\ c.start <= c.time_window[1]
      /\ c.time_window[1] < c.time_window[2]
      /\ c.time_window[2] <= c.end }

\* event matrices (n_trials, n_epochs_per_trial): the event shown in each slot
EventMatrices ==
  { << <<1, 2>> >>, << <<2, 1>> >>, << <<2, 1>>, <<1, 2>> >> }

NumEvents(ev) == Len(ev) * Len(ev[1])

\* one timestamp per event, in order of arrival
Timestamps(ev) == [i \in 1..NumEvents(ev) |-> 100 * i]

\* utils.cut_epochs: the window [start, end] around every timestamp, at the
\* native sample rate
CutEpochs(t_base, raw, timestamps) ==
  [raw |-> raw.id,
   order |-> [i \in 1..Len(timestamps) |-> i],
   stamps |-> timestamps,
   chans |-> raw.n_chan,
   times |-> [k \in 1..((t_base[2] - t_base[1]) * t_base[3]) |-> k - 1],
   steps |-> << >>]

\* utils.sort_epochs: within each trial, the epochs in the order of their
\* events; trials in order
SortEpochs(epochs, events) ==
  LET reps == Len(events[1]) IN
  [epochs EXCEPT !.order =
     [p \in 1..Len(epochs.order) |->
        LET trial == ((p - 1) \div reps) + 1
            k == ((p - 1) % reps) + 1
            j == CHOOSE i \in 1..reps : events[trial][i] = k
        IN  epochs.order[(trial - 1) * reps + j]]]

\* scipy.signal.detrend(epochs, axis = -1, type = 'linear')
Detrend(epochs) ==
  [epochs EXCEPT !.steps = Append(@, <<"detrend", Len(epochs.times)>>)]

\* utils.apply_baseline: subtract the mean of the pre-onset part of the
\* cut window
ApplyBaseline(t_base, epochs) ==
  [epochs EXCEPT !.steps = Append(@, <<"baseline", t_base, Len(epochs.times)>>)]

\* utils.timewindow: the samples of the analysis window, by proportion of
\* the cut window
TimeWindow(t_cut, time_window, epochs) ==
  LET n == Len(epochs.times)
      i0 == ((time_window[1] - t_cut[1]) * n) \div (t_cut[2] - t_cut[1])
      i1 == ((time_window[2] - t_cut[1]) * n) \div (t_cut[2] - t_cut[1])
  IN  [epochs EXCEPT !.times = [k \in 1..(i1 - i0) |-> epochs.times[i0 + k]]]

\* epochs[..., ::step]
Stride(epochs, step) ==
  [epochs EXCEPT !.times =
     [k \in 1..((Len(epochs.times) + step - 1) \div step) |->
        epochs.times[(k - 1) * step + 1]]]

Call(fn, in, out) == [fn |-> fn, in |-> in, out |-> out]

\* a pipeline that corrects the baseline before it detrends
EegStepsBaselineFirst(c, raw, timestamps, events) ==
  LET t_base == <<c.start, c.end, c.samplerate>>
      e1 == CutEpochs(t_base, raw, timestamps)
      e2 == SortEpochs(e1, events)
      e3 == ApplyBaseline(t_base, e2)
      e4 == Detrend(e3)
      e5 == TimeWindow(<<t_base[1], t_base[2]>>, c.time_window, e4)
  IN  << Call(<<"cut_epochs", t_base>>, raw, e1),
         Call(<<"sort_epochs", events>>, e1, e2),
         Call(<<"apply_baseline", t_base>>, e2, e3),
         Call(<<"detrend">>, e3, e4),
         Call(<<"timewindow", <<t_base[1], t_base[2]>>, c.time_window>>, e4, e5) >>

\* the EEG branch: the calls made, in order, each with its input and output
EegSteps(c, raw, timestamps, events) ==
  LET t_base == <<c.start, c.end, c.samplerate>>
      e1 == CutEpochs(t_base, raw, timestamps)
      e2 == SortEpochs(e1, events)
      e3 == Detrend(e2)
      e4 == ApplyBaseline(t_base, e3)
      e5 == TimeWindow(<<t_base[1], t_base[2]>>, c.time_window, e4)
  IN  << Call(<<"cut_epochs", t_base>>, raw, e1),
         Call(<<"sort_epochs", events>>, e1, e2),
         Call(<<"detrend">>, e2, e3),
         Call(<<"apply_baseline", t_base>>, e3, e4),
         Call(<<"timewindow", <<t_base[1], t_base[2]>>, c.time_window>>, e4, e5) >>

\* a type check that folds the case
SupportedIgnoringCase(c) == Lower(c.type) = EegStr

\* cfg.subj_info.type == 'eeg'
Supported(c) == c.type = EegStr

\* a decimation factor rounded up
DownRatioCeil(samplerate, downsamp) == (samplerate + downsamp - 1) \div downsamp

\* int(cfg.amp_info.samplerate / cfg.off_config.downsamp)
DownRatio(samplerate, downsamp) == samplerate \div downsamp

NoEpochs == [raw |-> 0]

Raw2EpochRes(c, raw, timestamps, events) ==
  IF ~Supported(c)
  THEN [ok |-> FALSE, err |-> "KeyError", log |-> << >>, ret |-> NoEpochs]
  ELSE LET steps == EegSteps(c, raw, timestamps, events)
           epochs == steps[Len(steps)].out
           down_ratio == DownRatio(c.samplerate, c.downsamp)
       IN  IF down_ratio = 0
           THEN \* slice step cannot be zero
                [ok |-> FALSE, err |-> "ValueError", log |-> steps, ret |-> NoEpochs]
           ELSE LET out == Stride(epochs, down_ratio) IN
                [ok |-> TRUE, err |-> "",
                 log |-> Append(steps, Call(<<"downsample", down_ratio>>, epochs, out)),
                 ret |-> out]

RawRecordings == { [id |-> k, n_chan |-> MaxCh] : k \in 1..MaxData }

Raw2Epoch(raw, events) ==
  LET r == Raw2EpochRes(cfg, raw, Timestamps(events), events) IN
  /\ last' = [op |-> "raw2epoch", ok |-> r.ok, err |-> r.err,
              raw |-> raw, events |-> events, ret |-> r.ret]
  /\ log' = r.log
  /\ UNCHANGED <<cfg, m, disk, scaler, heap>>

InitEpoch ==
  /\ cfg \in Configs
  /\ last = Idle
  /\ log = <<>>
  /\ m = NoModel
  /\ disk = EmptyDisk
  /\ scaler = NoScaler
  /\ heap = NoHeap

NextEpoch == \E raw \in RawRecordings, events \in EventMatrices : Raw2Epoch(raw, events)

SpecEpoch == InitEpoch /\ [][NextEpoch]_vars

Fns(l) == [i \in 1..Len(l) |-> l[i].fn[1]]

\* C8: with a recording type other than 'eeg', raw2epoch raises the
\* unsupported-type error without running any step and returns no epochs.
C8_UnsupportedTypeRaisesFirst ==
  (last.op = "raw2epoch" /\ cfg.type /= <<"e", "e", "g">>)
    => (~last.ok /\ last.err = "KeyError" /\ log = << >> /\ last.ret = NoEpochs)

\* raw2epoch has been called under the recording type 'EEG'
C8_Witness ==
  /\ last.op = "raw2epoch" /\ ~last.ok
  /\ cfg.type = <<"E", "E", "G">>

\* C9: for 'eeg', raw2epoch runs cut, sort, detrend, baseline, re-window and
\* downsample once each in this order, each on the output of the step before
\* it; the cut and the baseline get the same (start, end, samplerate).
C9_StepsInOrder ==
  (last.op = "raw2epoch" /\ last.ok) =>
    /\ Fns(log) = <<"cut_epochs", "sort_epochs", "detrend", "apply_baseline",
                    "timewindow", "downsample">>
    /\ log[1].in = last.raw
    /\ \A i \in 2..Len(log) : log[i].in = log[i - 1].out
    /\ last.ret = log[Len(log)].out
    /\ log[1].fn[2] = <<cfg.start, cfg.end, cfg.samplerate>>
    /\ log[4].fn[2] = log[1].fn[2]
    /\ log[2].fn[2] = last.events
    /\ log[5].fn = <<"timewindow", <<cfg.start, cfg.end>>, cfg.time_window>>
    /\ last.ret.steps = << <<"detrend", (cfg.end - cfg.start) * cfg.samplerate>>,
                           <<"baseline", <<cfg.start, cfg.end, cfg.samplerate>>,
                             (cfg.end - cfg.start) * cfg.samplerate>> >>

\* a run that reordered the epochs and narrowed the window
C9_Witness ==
  /\ last.op = "raw2epoch" /\ last.ok
  /\ Len(log) = 6
  /\ last.ret.order = <<2, 1, 3, 4>>
  /\ Len(log[5].out.times) < Len(log[4].out.times)

CeilDiv(a, b) == (a + b - 1) \div b

\* the samples kept are those at offsets 0, r, 2r, ... of the window
KeepsEveryRth(out, win, r) ==
  /\ Len(out.times) = CeilDiv(Len(win.times), r)
  /\ \A k \in 1..Len(out.times) : out.times[k] = win.times[(k - 1) * r + 1]
  /\ \A i \in 1..Len(win.times) :
       ((i - 1) % r = 0) <=> (\E k \in 1..Len(out.times) : out.times[k] = win.times[i])
  /\ out.order = win.order
  /\ out.chans = win.chans

\* C10 as stated: for every pair of positive rates, also a target rate above
\* the native one, the downsampling keeps the samples 0, r, 2r, ... with r
\* the integer part of native / target, ceil(n / r) samples in all, and
\* leaves the epoch and channel axes alone.
C10_StrideForAllRates ==
  (last.op = "raw2epoch" /\ cfg.type = <<"e", "e", "g">>) =>
    \E r \in 0..MaxRate :
      /\ r * cfg.downsamp <= cfg.samplerate
      /\ cfg.samplerate < (r + 1) * cfg.downsamp
      /\ last.ok
      /\ Len(log) = 6
      /\ KeepsEveryRth(last.ret, log[5].out, r)

\* C10 as amended: for every pair of positive rates with the target rate no
\* higher than the native one, the downsampling keeps the samples 0, r, 2r,
\* ... with r the integer part of native / target, ceil(n / r) samples in
\* all, and leaves the epoch and channel axes alone.
C10_StrideForLowerRates ==
  (last.op = "raw2epoch" /\ cfg.type = <<"e", "e", "g">>
     /\ cfg.downsamp <= cfg.samplerate) =>
    \E r \in 1..MaxRate :
      /\ r * cfg.downsamp <= cfg.samplerate
      /\ cfg.samplerate < (r + 1) * cfg.downsamp
      /\ last.ok
      /\ Len(log) = 6
      /\ KeepsEveryRth(last.ret, log[5].out, r)

\* a target rate that does not divide the native rate, and a window whose
\* length the stride does not divide
C10_Witness ==
  /\ last.op = "raw2epoch" /\ last.ok
  /\ cfg.samplerate % cfg.downsamp /= 0
  /\ Len(log) = 6
  /\ Len(log[5].out.times) > Len(last.ret.times)
  /\ Len(log[5].out.times) % (cfg.samplerate \div cfg.downsamp) /= 0

(***************************************************************************)
(* Properties of the wrapper.                                              *)
(***************************************************************************)
Called(l, f) == \E i \in 1..Len(l) : l[i] = f

Mirrored(w) ==
  IF w.has_ch_ind
  THEN /\ Key \in DOMAIN w.data_dict.items
       /\ w.data_dict.items[Key] = w.ch_ind
  ELSE Key \notin DOMAIN w.data_dict.items

CasePairs ==
  { <<"A", "a">>, <<"E", "e">>, <<"I", "i">>, <<"N", "n">>, <<"R", "r">>,
    <<"S", "s">>, <<"T", "t">>, <<"L", "l">>, <<"V", "v">> }

SameIgnoringCase(s, t) ==
  /\ Len(s) = Len(t)
  /\ \A i \in 1..Len(s) :
       \/ s[i] = t[i]
       \/ <<s[i], t[i]>> \in CasePairs
       \/ <<t[i], s[i]>> \in CasePairs

\* C1: after an assignment to ch_ind, the value read back is sorted
\* ascending and equals data_dict['ind_ch_scores'].
C1_ChIndSortedAndMirrored ==
  last.op = "set_ch_ind" =>
    /\ m.has_ch_ind
    /\ IsSortedAsc(m.ch_ind)
    /\ Key \in DOMAIN m.data_dict.items
    /\ m.data_dict.items[Key] = m.ch_ind

\* C2 as stated: whenever a fitted train-mode wrapper has just been dumped,
\* whether or not ch_ind was assigned, constructing a test-mode wrapper
\* succeeds and scores every epoch as the train-mode wrapper does.
C2_RoundTripAnyDump ==
  [][(/\ last.op = "dump" /\ last.ok
      /\ m.mode = TrainStr /\ IsFitted(m.cls)
      /\ last'.op = "init" /\ SameIgnoringCase(last'.mode, TestStr))
     => (/\ last'.ok
         /\ m'.mode = TestStr
         /\ \A X \in Epochs : DecisionRes(m', X) = DecisionRes(m, X))]_vars

\* C2 as amended: whenever a fitted train-mode wrapper whose ch_ind was
\* assigned has just been dumped, constructing a test-mode wrapper succeeds
\* and scores every epoch as the train-mode wrapper does.
C2_RoundTripAfterChInd ==
  [][(/\ last.op = "dump" /\ last.ok
      /\ m.mode = TrainStr /\ IsFitted(m.cls) /\ m.has_ch_ind
      /\ last'.op = "init" /\ SameIgnoringCase(last'.mode, TestStr))
     => (/\ last'.ok
         /\ m'.mode = TestStr
         /\ \A X \in Epochs :
              /\ DecisionRes(m', X).ok
              /\ DecisionRes(m', X).ret = DecisionRes(m, X).ret)]_vars

\* a test-mode wrapper loaded from the dump of a fitted pipeline with a
\* non-empty channel selection
C2_Witness ==
  /\ last.op = "init" /\ last.ok
  /\ m.mode = TestStr /\ IsFitted(m.cls) /\ m.ch_ind /= <<>>
  /\ disk.pkl.blob = JoblibDump(m.cls)

\* C3 as stated: a dump that returns writes coef.npz iff the coefficient
\* store is non-empty and model.pkl iff a fitted pipeline is present, and
\* leaves the wrapper as it was.
C3_DumpWritesIffFitted ==
  [][(last'.op = "dump" /\ last'.ok)
     => (/\ Called(log', "np.savez") <=> Truthy(m.data_dict)
         /\ Called(log', "joblib.dump") <=> IsFitted(m.cls)
         /\ m' = m)]_vars

\* C3 as amended: a dump that returns writes coef.npz iff the coefficient
\* store is non-empty and model.pkl iff the wrapper holds a pipeline object,
\* fitted or not; each artifact is written whatever happens to the other,
\* an artifact that is not written stays as it was, and the wrapper is left
\* as it was.
C3_DumpWritesIffPresent ==
  [][(last'.op = "dump" /\ last'.ok)
     => (/\ Called(log', "np.savez") <=> Truthy(m.data_dict)
         /\ Called(log', "joblib.dump") <=> ~m.cls.is_none
         /\ IF Truthy(m.data_dict)
            THEN /\ disk'.coef.exists
                 /\ disk'.coef.members =
                      { <<k, m.data_dict.items[k]>> : k \in DOMAIN m.data_dict.items }
            ELSE disk'.coef = disk.coef
         /\ IF m.cls.is_none
            THEN disk'.pkl = disk.pkl
            ELSE disk'.pkl.exists /\ JoblibLoad(disk'.pkl.blob) = m.cls
         /\ m' = m)]_vars

\* a dump of a wrapper with an empty store and an unfit pipeline has written
\* model.pkl alone
C3_Witness ==
  /\ last.op = "dump" /\ last.ok
  /\ ~Truthy(m.data_dict) /\ ~IsFitted(m.cls)
  /\ log = <<"joblib.dump">>
  /\ disk.pkl.exists /\ ~disk.coef.exists

\* C4: an operation that fails (fit, test-mode construction, dump, an
\* assignment to ch_ind) leaves the wrapper's state exactly as it was, with
\* ch_ind and data_dict['ind_ch_scores'] in agreement.
C4_FailureLeavesState ==
  [][(~last'.ok /\ last'.op \in {"fit", "init", "dump", "set_ch_ind"})
     => (m' = m /\ Mirrored(m'))]_vars

\* C5: a mode other than 'train' or 'test' (ignoring case) fails before
\* anything is loaded or built; 'train' yields an empty store and no channel
\* selection; 'test' yields ch_ind equal to the loaded 'ind_ch_scores'.
C5_ModeDecidesConstruction ==
  last.op = "init" =>
    /\ (~SameIgnoringCase(last.mode, TrainStr) /\ ~SameIgnoringCase(last.mode, TestStr))
         => (~last.ok /\ log = <<>>)
    /\ SameIgnoringCase(last.mode, TrainStr)
         => (/\ last.ok /\ m.mode = TrainStr
             /\ DOMAIN m.data_dict.items = {} /\ ~m.has_ch_ind
             /\ ~Called(log, "np.load") /\ ~Called(log, "joblib.load"))
    /\ (SameIgnoringCase(last.mode, TestStr) /\ last.ok)
         => (/\ m.mode = TestStr /\ m.has_ch_ind
             /\ <<Key, m.ch_ind>> \in disk.coef.members
             /\ m.data_dict.items[Key] = m.ch_ind)

\* a construction with mode 'eval' has failed
C5_Witness ==
  /\ last.op = "init" /\ ~last.ok
  /\ last.mode = <<"e", "v", "a", "l">>
  /\ log = <<>>

\* C6: extract_feature returns extractor(data[ch_ind]) when channel
\* selection is requested and extractor(data) otherwise; without channel
\* selection it succeeds even if ch_ind was never assigned; the wrapper and
\* the session's artifacts are left as they were.
C6_ExtractFeature ==
  [][(last'.op = "extract_feature")
     => (/\ m' = m /\ disk' = disk
         /\ LET a == last' IN
            IF a.channel_selection
            THEN /\ a.ok <=> m.has_ch_ind
                 /\ a.ok => /\ Len(a.ret) = Len(m.ch_ind)
                            /\ \A i \in 1..Len(m.ch_ind) :
                                 a.ret[i] =
                                   ExtractValue(a.extractor, a.data[m.ch_ind[i] + 1])
            ELSE /\ a.ok
                 /\ Len(a.ret) = Len(a.data)
                 /\ \A i \in 1..Len(a.data) :
                      a.ret[i] = ExtractValue(a.extractor, a.data[i]))]_vars

\* features extracted without channel selection from a train-mode wrapper
\* whose ch_ind was never assigned
C6_Witness ==
  /\ last.op = "extract_feature" /\ last.ok
  /\ ~last.channel_selection /\ ~m.has_ch_ind
  /\ Len(last.ret) = MaxCh

====
